---- MODULE Spec2Model ----
(***************************************************************************)
(* Model of parking_scheduler.py: one run of main(), i.e. inject_secrets() *)
(* followed by execute_payment_and_analyze().                              *)
(*                                                                         *)
(* Instants are whole seconds since 2024-01-01T00:00:00Z.  The runner's    *)
(* clock (datetime.now) also carries a sub-second part, counted in         *)
(* 1/SubSecondSteps of a second; every other instant of the program        *)
(* (expiry literal, midnights, cutoff) is a whole number of seconds.       *)
(***************************************************************************)
EXTENDS Integers, Sequences, FiniteSets, TLC

\* ---------------------------------------------------------------- limits
MAX_WAIT_SECONDS == 14400
\* A margin longer than the longest wait.
MARGIN_SECONDS_FiveHours == 5 * 3600
MARGIN_SECONDS == 2700
SAFETY_GAP_SECONDS == 180
PARIS_END_PARKING_HOUR_LOCAL == 20

\* ---------------------------------------------------------------- bounds
SubSecondSteps == 2
MaxRows == 2

\* ------------------------------------------------------ time arithmetic
SecondsPerDay == 24 * 3600

\* Python's int(x) for a real x = n / d (d > 0): truncation toward zero.
IntTrunc(n, d) == IF n >= 0 THEN n \div d ELSE -((-n) \div d)

\* Europe/Paris in 2024 (tz database): CET = UTC+1, CEST = UTC+2,
\* CEST in force from 2024-03-31T01:00Z up to 2024-10-27T01:00Z.
CET_OFFSET == 3600
CEST_OFFSET == 7200
SpringForwardUTC == 90 * SecondsPerDay + 3600
FallBackUTC == 300 * SecondsPerDay + 3600

\* utcoffset of the tzinfo that pytz attaches to a UTC instant (astimezone).
ParisOffset(utc) ==
    IF SpringForwardUTC <= utc /\ utc < FallBackUTC THEN CEST_OFFSET ELSE CET_OFFSET

\* x.astimezone(paris_tz).date(), as a day number since 2024-01-01.
ParisDate(utc) == (utc + ParisOffset(utc)) \div SecondsPerDay

\* paris_tz.localize(naive) as a UTC instant; naive is a wall-clock reading in
\* seconds since 2024-01-01T00:00:00 local.  is_dst=False: the standard-time
\* reading wins when both fit.
Localize(naive) ==
    IF ParisOffset(naive - CET_OFFSET) = CET_OFFSET
    THEN naive - CET_OFFSET
    ELSE naive - CEST_OFFSET

\* Midnight (start of the civil day) in Paris of day number d, in UTC.
ParisMidnightUTC(d) == Localize(d * SecondsPerDay)

\* 20:00 converted with the offset in force at call time (no localize).
get_paris_end_of_parking_utc_CallTimeOffset(today_utc) ==
    ParisDate(today_utc) * SecondsPerDay + PARIS_END_PARKING_HOUR_LOCAL * 3600
    - ParisOffset(today_utc)

get_paris_end_of_parking_utc(today_utc) ==
    Localize(ParisDate(today_utc) * SecondsPerDay
             + PARIS_END_PARKING_HOUR_LOCAL * 3600)

\* current_date_utc.astimezone(paris_tz).replace(hour=0, minute=0, second=0,
\* microsecond=0): replace() keeps the tzinfo astimezone attached, i.e. the
\* offset in force at current_date_utc, not the one in force at midnight.
TodayParisMidnight(utc) == ParisDate(utc) * SecondsPerDay - ParisOffset(utc)

\* ---------------------------------------------------------------- inputs
None == -1
NoMatch == -2
Malformed == -3
NonNumeric == -4
Running == -1

Accounts == {"car", "van"}

RequiredInputs ==
    {"CONFIG_FILE", "ACCOUNT", "PBP_PLATE", "PAYBYPHONE_LOGIN", "PAYBYPHONE_PASS",
     "PBP_PAYMENT_ID", "PBP_DURATION", "PBP_LOCATION", "PBP_RATE", "PBP_UNIT"}

At(day, h, m, s) == day * SecondsPerDay + h * 3600 + m * 60 + s

\* Clock readings (UTC): an ordinary summer day, the moments around Paris
\* midnight, and the two days on which the Paris offset changes.
NowSeconds ==
    { At(161, 10, 0, 0),     \* 2024-06-10 12:00 Paris
      At(161, 19, 0, 0),     \* 2024-06-10 21:00 Paris, after the 20:00 cutoff
      At(160, 21, 59, 59),   \* 2024-06-09 23:59:59 Paris
      At(160, 22, 0, 0),     \* 2024-06-10 00:00:00 Paris
      At(89, 23, 0, 0),      \* 2024-03-31 00:00 Paris (23-hour day begins)
      At(90, 0, 30, 0),      \* 2024-03-31 01:30 CET, before spring-forward
      At(90, 12, 0, 0),      \* 2024-03-31 14:00 CEST, after spring-forward
      At(299, 22, 0, 0),     \* 2024-10-27 00:00 Paris (25-hour day begins)
      At(299, 22, 30, 0),    \* 2024-10-27 00:30 CEST, before fall-back
      At(300, 11, 0, 0) }    \* 2024-10-27 12:00 CET, after fall-back

Clocks == [sec : NowSeconds, sub : 0 .. (SubSecondSteps - 1)]

\* Values of PBP_DURATION.
DurationValues == {0, 1, 2, 6}

ReturnCodes == {0, 1, 2}

\* Cells of column 1 of the worksheet: empty, header, not a date, or a
\* well-formed AAAA-MM-JJ date (given as its day number).
RowKinds == {"empty", "header", "malformed"}
Rows(now) ==
    [kind : RowKinds, day : {0}]
    \cup [kind : {"date"}, day : (ParisDate(now.sec) - 1) .. (ParisDate(now.sec) + 2)]

Sheets(now) == UNION { [1 .. n -> Rows(now)] : n \in 0 .. MaxRows }

\* expireTime literals the payment log may carry, placed around every
\* threshold of the decision: remaining = 0, remaining = MAX_WAIT_SECONDS and
\* expiry = cutoff.
RemainingOffsets ==
    {-1, 0, 1, 1800 + SAFETY_GAP_SECONDS, MARGIN_SECONDS, MAX_WAIT_SECONDS - 1,
     MAX_WAIT_SECONDS, MAX_WAIT_SECONDS + 1, 5 * 3600, 22 * 3600}
ExpiryLiterals(now) ==
    { now.sec - SAFETY_GAP_SECONDS + r : r \in RemainingOffsets }
    \cup { get_paris_end_of_parking_utc(now.sec) + e : e \in -1 .. 1 }

\* Combined output of the payment command: whether it holds the marker
\* "Already registered" and the expireTime literal in it: none (NoMatch), one
\* with a group that is not made of digits (NonNumeric), one with digit groups
\* that are no calendar date or time, such as month 13 (Malformed), or a
\* well-formed one (its instant).  The literal is only looked at when the
\* marker is there.
Logs(now) ==
    [registered : {TRUE},
     expireTime : {NoMatch, NonNumeric, Malformed} \cup ExpiryLiterals(now)]
    \cup {[registered |-> FALSE, expireTime |-> NoMatch]}

\* ----------------------------------------------------------------- state
VARIABLES
    pc,                       \* position in main()
    missing,                  \* the required input that is absent, or "none"
    CONFIG_NAME,              \* account of this invocation
    GH_TOKEN,                 \* TRUE iff GH_PAT is set
    SHEET_CONFIGURED,         \* TRUE iff SHEET_ID and GOOGLE_SERVICE_ACCOUNT are set
    current_time_utc,         \* the clock reading of line 152
    MAX_DURATION_DAYS,        \* int(PBP_DURATION)
    absenceSource,            \* outcome of the worksheet read
    dates_absences,           \* the column read from the worksheet
    next_absence_utc,
    days_until_absence_end,
    payment_duration_days,
    process,                  \* result of the first payment command
    expiry_time_utc,
    wait_time_seconds,
    verdict,                  \* branch of the decision taken
    process_retry,            \* result of the second payment command
    payCalls,                 \* payment commands run, in order
    sleepCalls,               \* time.sleep calls, in order
    dispatchCalls,            \* gh workflow run calls, in order
    paris_end_parking_timestamp,  \* the cutoff of line 261, None until computed
    dispatch_process,         \* exit status of gh workflow run, Running if not run
    exitCode                  \* process exit status, Running until it exits

vars ==
    << pc, missing, CONFIG_NAME, GH_TOKEN, SHEET_CONFIGURED, current_time_utc,
       MAX_DURATION_DAYS, absenceSource, dates_absences, next_absence_utc,
       days_until_absence_end, payment_duration_days, process, expiry_time_utc,
       wait_time_seconds, verdict, process_retry, payCalls, sleepCalls,
       dispatchCalls, paris_end_parking_timestamp, dispatch_process, exitCode >>

envVars == << missing, CONFIG_NAME, GH_TOKEN, SHEET_CONFIGURED, current_time_utc,
              MAX_DURATION_DAYS >>
absenceVars == << absenceSource, dates_absences, next_absence_utc,
                  days_until_absence_end, payment_duration_days >>
analysisVars == << expiry_time_utc, wait_time_seconds, verdict >>
callVars == << payCalls, sleepCalls, dispatchCalls >>
dispatchVars == << paris_end_parking_timestamp, dispatch_process >>

NoProcess == [returncode |-> Running, log |-> [registered |-> FALSE, expireTime |-> NoMatch]]

Init ==
    /\ pc = "inject_secrets"
    /\ missing \in {"none"} \cup RequiredInputs
    /\ CONFIG_NAME \in Accounts
    /\ GH_TOKEN \in BOOLEAN
    /\ SHEET_CONFIGURED \in BOOLEAN
    /\ current_time_utc \in Clocks
    /\ MAX_DURATION_DAYS \in DurationValues
    /\ absenceSource = "unread"
    /\ dates_absences = << >>
    /\ next_absence_utc = None
    /\ days_until_absence_end = 0
    /\ payment_duration_days = 0
    /\ process = NoProcess
    /\ expiry_time_utc = None
    /\ wait_time_seconds = 0
    /\ verdict = "none"
    /\ process_retry = NoProcess
    /\ payCalls = << >>
    /\ sleepCalls = << >>
    /\ dispatchCalls = << >>
    /\ paris_end_parking_timestamp = None
    /\ dispatch_process = Running
    /\ exitCode = Running

\* sys.exit(code), or an uncaught exception (status 1).
Exit(code) == pc' = "done" /\ exitCode' = code

\* ------------------------------------------------------ pure computations
Min(S) == CHOOSE x \in S : \A y \in S : x <= y

\* The filter of line 127 left out: every well-formed date is kept.
FutureAbsences_KeepsPast(rows, now) ==
    { ParisMidnightUTC(rows[i].day) :
        i \in { j \in DOMAIN rows : rows[j].kind = "date" } }

\* Lines 116-131: the rows kept by the filter, as UTC instants of their Paris
\* midnight.  Empty cells and header cells are skipped, strptime rejects
\* anything that is not AAAA-MM-JJ, and a date is kept when its midnight is
\* not before today_paris_midnight.
FutureAbsences(rows, now) ==
    { ParisMidnightUTC(rows[i].day) :
        i \in { j \in DOMAIN rows :
                  /\ rows[j].kind = "date"
                  /\ ParisMidnightUTC(rows[j].day) >= TodayParisMidnight(now.sec) } }

\* Return value of get_next_absence_date.
NextAbsence(source, rows, now) ==
    IF source = "ok" /\ FutureAbsences(rows, now) # {}
    THEN Min(FutureAbsences(rows, now))
    ELSE None

\* Civil days between the two dates instead of whole 24-hour periods.
DaysUntilAbsenceEnd_CalendarDays(next, now) == ParisDate(next) - ParisDate(now.sec)

\* Lines 162-166: int((next_absence - now) / (24 * 3600)).
DaysUntilAbsenceEnd(next, now) ==
    IntTrunc((next - now.sec) * SubSecondSteps - now.sub,
             SecondsPerDay * SubSecondSteps)

\* Line 176 without the cap: the days until the absence, whatever the maximum.
AdjustedDuration_NoCap(maxDays, days) == days

\* Line 176.
AdjustedDuration(maxDays, days) == IF maxDays <= days THEN maxDays ELSE days

\* Line 237 without the safety gap.
WaitTimeSeconds_NoSafetyGap(expiry, now) ==
    IntTrunc((expiry - now.sec) * SubSecondSteps - now.sub, SubSecondSteps)

\* Line 237: int((expiry + SAFETY_GAP_SECONDS) - now).
WaitTimeSeconds(expiry, now) ==
    IntTrunc((expiry + SAFETY_GAP_SECONDS - now.sec) * SubSecondSteps - now.sub,
             SubSecondSteps)

\* Line 251 with < for <=.
Decision_ExclusiveMaxWait(wait, expiry, now) ==
    IF wait <= 0 THEN "RetryNow"
    ELSE IF wait < MAX_WAIT_SECONDS THEN "SleepThenRetry"
    ELSE IF expiry > get_paris_end_of_parking_utc(now.sec) THEN "DeferToNextCycle"
    ELSE "DelegateToFutureJob"

\* Line 247 with < for <=.
Decision_StrictlyExpired(wait, expiry, now) ==
    IF wait < 0 THEN "RetryNow"
    ELSE IF wait <= MAX_WAIT_SECONDS THEN "SleepThenRetry"
    ELSE IF expiry > get_paris_end_of_parking_utc(now.sec) THEN "DeferToNextCycle"
    ELSE "DelegateToFutureJob"

\* Line 263 with >= for >.
Decision_DeferAtCutoff(wait, expiry, now) ==
    IF wait <= 0 THEN "RetryNow"
    ELSE IF wait <= MAX_WAIT_SECONDS THEN "SleepThenRetry"
    ELSE IF expiry >= get_paris_end_of_parking_utc(now.sec) THEN "DeferToNextCycle"
    ELSE "DelegateToFutureJob"

\* Lines 247-265: the branch taken.
Decision(wait, expiry, now) ==
    IF wait <= 0 THEN "RetryNow"
    ELSE IF wait <= MAX_WAIT_SECONDS THEN "SleepThenRetry"
    ELSE IF expiry > get_paris_end_of_parking_utc(now.sec) THEN "DeferToNextCycle"
    ELSE "DelegateToFutureJob"

\* The sys.exit(0) of line 265 left out: the defer branch falls through.
StepAfter_DeferFallsThrough(d) ==
    CASE d = "RetryNow" -> "retry"
      [] d = "SleepThenRetry" -> "sleep"
      [] d = "DeferToNextCycle" -> "retry"
      [] OTHER -> "dispatch"

\* Lines 247-289: where each branch continues.  The short-wait branches fall
\* through to the second attempt (the sleep first, when there is one), the
\* long-wait branches leave the process.
StepAfter(d) ==
    CASE d = "RetryNow" -> "retry"
      [] d = "SleepThenRetry" -> "sleep"
      [] d = "DeferToNextCycle" -> "done"
      [] OTHER -> "dispatch"

\* Line 268 with the margin added instead of subtracted.
DispatchTimestamp_MarginAdded(expiry) == expiry + SAFETY_GAP_SECONDS + MARGIN_SECONDS

\* Line 268 without the safety gap.
DispatchTimestamp_NoSafetyGap(expiry) == expiry - MARGIN_SECONDS

\* Line 268.
DispatchTimestamp(expiry) == expiry + SAFETY_GAP_SECONDS - MARGIN_SECONDS

\* Lines 278-283: the arguments of gh workflow run.
DispatchCall(expiry, account) ==
    [launch_time |-> DispatchTimestamp(expiry), target_account |-> account]

\* Lines 187-194: the arguments of the payment command.
PayCall(account, duration) == [account |-> account, duration |-> duration]

\* Exit status tested before the marker: status 0 always counts as success.
FirstAttemptOutcome_ZeroIsSuccess(returncode, registered) ==
    IF returncode = 0 THEN "success"
    ELSE IF ~registered THEN "fail"
    ELSE "analyze"

\* Lines 206-214: what the first attempt's result leads to.
FirstAttemptOutcome(returncode, registered) ==
    IF returncode # 0 /\ ~registered THEN "fail"
    ELSE IF ~registered THEN "success"
    ELSE "analyze"

\* A literal that is not found treated as an extraction error.
ExtractionOutcome_NoMatchIsFatal(expireTime) ==
    IF expireTime \in {NoMatch, NonNumeric, Malformed} THEN "error" ELSE "ok"

\* The except clause of line 232 leaving with the warning of line 225.
ExtractionOutcome_ErrorIsWarning(expireTime) ==
    IF expireTime \in {NoMatch, NonNumeric, Malformed} THEN "no_match" ELSE "ok"

\* Lines 222-234: the pattern of line 222 only matches groups of digits, so
\* a literal with any other group is not found (line 224, exit 0); digit
\* groups that datetime() rejects raise ValueError (line 232, exit 1).
ExtractionOutcome(expireTime) ==
    IF expireTime \in {NoMatch, NonNumeric} THEN "no_match"
    ELSE IF expireTime = Malformed THEN "error"
    ELSE "ok"

\* check=True left out: the status of gh workflow run is not looked at.
DispatchExitCode_IgnoresFailure(returncode) == 0

\* Lines 277-289: exit status after gh workflow run (check=True).
DispatchExitCode(returncode) == IF returncode = 0 THEN 0 ELSE 1

\* sys.exit(1) in place of sys.exit(process_retry.returncode).
RetryExitCode_AlwaysOne(returncode) == IF returncode = 0 THEN 0 ELSE 1

\* Lines 304-309: exit status after the second attempt.
RetryExitCode(returncode) == IF returncode = 0 THEN 0 ELSE returncode

\* ---------------------------------------------------------------- actions
\* Lines 53-85.
inject_secrets ==
    /\ pc = "inject_secrets"
    /\ IF missing \in {"CONFIG_FILE", "PBP_PLATE", "PAYBYPHONE_LOGIN",
                       "PAYBYPHONE_PASS", "PBP_PAYMENT_ID", "ACCOUNT"}
       THEN Exit(1)
       ELSE pc' = "execute" /\ exitCode' = exitCode
    /\ UNCHANGED << envVars, dispatchVars, absenceVars, process, analysisVars, process_retry, callVars >>

\* Lines 150-153.
ReadDuration ==
    /\ pc = "execute"
    /\ IF missing = "PBP_DURATION"
       THEN Exit(1) /\ UNCHANGED payment_duration_days
       ELSE /\ pc' = "get_next_absence_date"
            /\ payment_duration_days' = MAX_DURATION_DAYS
            /\ exitCode' = exitCode
    /\ UNCHANGED << envVars, dispatchVars, absenceSource, dates_absences, next_absence_utc,
                    days_until_absence_end, process, analysisVars, process_retry,
                    callVars >>

\* Lines 93-108 and 139-144: the worksheet is read, or is not configured, or
\* reading it raises.
ReadWorksheet ==
    /\ pc = "get_next_absence_date"
    /\ IF ~SHEET_CONFIGURED
       THEN absenceSource' = "unconfigured" /\ dates_absences' = << >>
       ELSE \/ absenceSource' = "error" /\ dates_absences' = << >>
            \/ /\ absenceSource' = "ok"
               /\ dates_absences' \in Sheets(current_time_utc)
    /\ pc' = "adjust"
    /\ UNCHANGED << envVars, dispatchVars, next_absence_utc, days_until_absence_end,
                    payment_duration_days, process, analysisVars, process_retry,
                    callVars, exitCode >>

\* Lines 110-137 and 160-184.
AdjustCoverage ==
    /\ pc = "adjust"
    /\ LET next == NextAbsence(absenceSource, dates_absences, current_time_utc)
           days == DaysUntilAbsenceEnd(next, current_time_utc)
           duration == AdjustedDuration(MAX_DURATION_DAYS, days)
       IN /\ next_absence_utc' = next
          /\ IF next # None
             THEN /\ days_until_absence_end' = days
                  /\ IF days <= 0
                     THEN Exit(0) /\ UNCHANGED payment_duration_days
                     ELSE /\ payment_duration_days' = duration
                          /\ IF duration <= 0
                             THEN Exit(0)
                             ELSE pc' = "pay" /\ exitCode' = exitCode
             ELSE /\ UNCHANGED << days_until_absence_end, payment_duration_days >>
                  /\ IF payment_duration_days <= 0
                     THEN Exit(0)
                     ELSE pc' = "pay" /\ exitCode' = exitCode
    /\ dates_absences' = << >>
    /\ UNCHANGED << envVars, dispatchVars, absenceSource, process, analysisVars, process_retry,
                    callVars >>

\* Lines 187-214.
FirstAttempt ==
    /\ pc = "pay"
    /\ IF missing \in {"PBP_LOCATION", "PBP_RATE", "PBP_UNIT"}
       THEN Exit(1) /\ UNCHANGED << process, payCalls >>
       ELSE \E rc \in ReturnCodes, log \in Logs(current_time_utc) :
              /\ process' = [returncode |-> rc, log |-> log]
              /\ payCalls' = Append(payCalls, PayCall(CONFIG_NAME, payment_duration_days))
              /\ LET outcome == FirstAttemptOutcome(rc, log.registered)
                 IN CASE outcome = "fail" -> Exit(rc)
                      [] outcome = "success" -> Exit(0)
                      [] OTHER -> pc' = "extract" /\ exitCode' = exitCode
    /\ UNCHANGED << envVars, dispatchVars, absenceVars, analysisVars, process_retry, sleepCalls,
                    dispatchCalls >>

\* Lines 219-234.
ExtractExpiry ==
    /\ pc = "extract"
    /\ CASE ExtractionOutcome(process.log.expireTime) = "no_match"
              -> Exit(0) /\ UNCHANGED expiry_time_utc
         [] ExtractionOutcome(process.log.expireTime) = "error"
              -> Exit(1) /\ UNCHANGED expiry_time_utc
         [] OTHER -> /\ expiry_time_utc' = process.log.expireTime
                     /\ pc' = "decide"
                     /\ exitCode' = exitCode
    /\ UNCHANGED << envVars, dispatchVars, absenceVars, process, wait_time_seconds, verdict,
                    process_retry, callVars >>

\* Lines 237-265.
Decide ==
    /\ pc = "decide"
    /\ LET wait == WaitTimeSeconds(expiry_time_utc, current_time_utc)
           d == Decision(wait, expiry_time_utc, current_time_utc)
       IN /\ wait_time_seconds' = wait
          /\ verdict' = d
          /\ paris_end_parking_timestamp' =
                IF d \in {"DeferToNextCycle", "DelegateToFutureJob"}
                THEN get_paris_end_of_parking_utc(current_time_utc.sec)
                ELSE paris_end_parking_timestamp
          /\ UNCHANGED dispatch_process
          /\ IF StepAfter(d) = "done"
             THEN Exit(0)
             ELSE pc' = StepAfter(d) /\ exitCode' = exitCode
    /\ UNCHANGED << envVars, absenceVars, process, expiry_time_utc, process_retry,
                    callVars >>

\* Line 254.
Sleep ==
    /\ pc = "sleep"
    /\ sleepCalls' = Append(sleepCalls, wait_time_seconds)
    /\ pc' = "retry"
    /\ UNCHANGED << envVars, dispatchVars, absenceVars, process, analysisVars, process_retry,
                    payCalls, dispatchCalls, exitCode >>

\* Lines 268-289.
Dispatch ==
    /\ pc = "dispatch"
    /\ IF ~GH_TOKEN
       THEN Exit(1) /\ UNCHANGED << dispatchCalls, dispatch_process >>
       ELSE /\ dispatchCalls' = Append(dispatchCalls,
                                       DispatchCall(expiry_time_utc, CONFIG_NAME))
            /\ \E rc \in ReturnCodes :
                 /\ dispatch_process' = rc
                 /\ Exit(DispatchExitCode(rc))
    /\ UNCHANGED << envVars, paris_end_parking_timestamp, absenceVars, process,
                    analysisVars, process_retry, payCalls, sleepCalls >>

\* Lines 295-309.
SecondAttempt ==
    /\ pc = "retry"
    /\ \E rc \in ReturnCodes, registered \in BOOLEAN :
         /\ process_retry' = [returncode |-> rc,
                              log |-> [registered |-> registered, expireTime |-> NoMatch]]
         /\ payCalls' = Append(payCalls, PayCall(CONFIG_NAME, payment_duration_days))
         /\ Exit(RetryExitCode(rc))
    /\ UNCHANGED << envVars, dispatchVars, absenceVars, process, analysisVars, sleepCalls,
                    dispatchCalls >>

Next ==
    \/ inject_secrets
    \/ ReadDuration
    \/ ReadWorksheet
    \/ AdjustCoverage
    \/ FirstAttempt
    \/ ExtractExpiry
    \/ Decide
    \/ Sleep
    \/ Dispatch
    \/ SecondAttempt

Spec == Init /\ [][Next]_vars

\* ------------------------------------------------------------ properties
\* remaining = (expiry + safetyGapSeconds) - now, in clock ticks of
\* 1/SubSecondSteps second.
RemainingTicks ==
    (expiry_time_utc + SAFETY_GAP_SECONDS - current_time_utc.sec) * SubSecondSteps
    - current_time_utc.sub

Decided == verdict # "none"
ReachedDecision == expiry_time_utc # None /\ pc # "decide"
Exited(code) == pc = "done" /\ exitCode = code

\* C1: a run that reaches the decision step takes a verdict, and the verdict
\* never changes afterwards; after DelegateToFutureJob or DeferToNextCycle the
\* payment command (already run once) is not run again; after RetryNow or
\* SleepThenRetry it is run exactly once more before the process exits.
C1_VerdictThenAttempts ==
    /\ [](ReachedDecision => Decided)
    /\ [][verdict # "none" => verdict' = verdict]_vars
    /\ [](verdict \in {"DelegateToFutureJob", "DeferToNextCycle"}
            => Len(payCalls) = 1 /\ pc \in {"dispatch", "done"})
    /\ [](verdict \in {"RetryNow", "SleepThenRetry"}
            => /\ pc \in {"sleep", "retry", "done"}
               /\ Len(payCalls) = (IF pc = "done" THEN 2 ELSE 1))

C1_Witness ==
    /\ verdict = "SleepThenRetry"
    /\ pc = "done"
    /\ Len(payCalls) = 2

\* C2 as stated: whenever 0 < remaining <= maxWaitSeconds the decision is
\* SleepThenRetry and the sleep lasts exactly remaining.
C2_Original ==
    (Decided /\ 0 < RemainingTicks /\ RemainingTicks <= MAX_WAIT_SECONDS * SubSecondSteps)
    => /\ verdict = "SleepThenRetry"
       /\ wait_time_seconds * SubSecondSteps = RemainingTicks
       /\ dispatchCalls = << >>

\* C2 amended: whenever 1 <= remaining < maxWaitSeconds + 1 the decision is
\* SleepThenRetry, the sleep lasts remaining rounded down to whole seconds
\* (maxWaitSeconds when remaining is maxWaitSeconds exactly), the delegation
\* command is not run and the process does not defer.
C2_SleepWithinMaxWait ==
    (/\ Decided
     /\ SubSecondSteps <= RemainingTicks
     /\ RemainingTicks < (MAX_WAIT_SECONDS + 1) * SubSecondSteps)
    => /\ verdict = "SleepThenRetry"
       /\ wait_time_seconds = RemainingTicks \div SubSecondSteps
       /\ (RemainingTicks = MAX_WAIT_SECONDS * SubSecondSteps
             => wait_time_seconds = MAX_WAIT_SECONDS)
       /\ pc \in {"sleep", "retry", "done"}
       /\ (pc # "sleep" => sleepCalls = << wait_time_seconds >>)
       /\ dispatchCalls = << >>
       /\ (pc = "done" => Len(payCalls) = 2)

C2_Witness ==
    /\ RemainingTicks = MAX_WAIT_SECONDS * SubSecondSteps
    /\ verdict = "SleepThenRetry"
    /\ sleepCalls = << MAX_WAIT_SECONDS >>
    /\ pc = "retry"

\* C3: whenever remaining <= 0 the decision is RetryNow: no sleep, no
\* delegation, and the next step is the second payment attempt.
C3_RetryNowWhenExpired ==
    (Decided /\ RemainingTicks <= 0)
    => /\ verdict = "RetryNow"
       /\ sleepCalls = << >>
       /\ dispatchCalls = << >>
       /\ pc \in {"retry", "done"}
       /\ Len(payCalls) = (IF pc = "done" THEN 2 ELSE 1)

C3_Witness ==
    /\ RemainingTicks = 0
    /\ verdict = "RetryNow"
    /\ pc = "done"
    /\ Len(payCalls) = 2
    /\ sleepCalls = << >>

Cutoff == get_paris_end_of_parking_utc(current_time_utc.sec)

Deferred ==
    /\ verdict = "DeferToNextCycle"
    /\ Exited(0)
    /\ dispatchCalls = << >>
    /\ Len(payCalls) = 1

\* C4 as stated: whenever remaining > maxWaitSeconds the process defers iff
\* expiry > cutoff, and takes the delegate branch otherwise.
C4_Original ==
    (Decided /\ RemainingTicks > MAX_WAIT_SECONDS * SubSecondSteps)
    => /\ Deferred <=> expiry_time_utc > Cutoff
       /\ expiry_time_utc <= Cutoff => verdict = "DelegateToFutureJob"

\* C4 amended: whenever remaining >= maxWaitSeconds + 1 (remaining rounded
\* down to whole seconds exceeds maxWaitSeconds) the process defers (exit 0,
\* no delegation call, no second payment) iff expiry > cutoff; with
\* expiry = cutoff or expiry < cutoff it takes the delegate branch.
C4_DeferOnlyPastCutoff ==
    (Decided /\ RemainingTicks >= (MAX_WAIT_SECONDS + 1) * SubSecondSteps)
    => /\ Deferred <=> expiry_time_utc > Cutoff
       /\ verdict = "DeferToNextCycle" => Deferred
       /\ expiry_time_utc <= Cutoff
            => verdict = "DelegateToFutureJob" /\ pc \in {"dispatch", "done"}

C4_Witness ==
    /\ verdict = "DelegateToFutureJob"
    /\ expiry_time_utc = Cutoff
    /\ dispatchCalls # << >>

\* C5: every delegation call carries the dispatch instant
\* expiry + safetyGapSeconds - marginSeconds (expiry - 2520 s) and the account
\* of this invocation, the one the payment command was run for.
C5_DispatchArguments ==
    \A i \in DOMAIN dispatchCalls :
        /\ dispatchCalls[i].launch_time = expiry_time_utc - 2520
        /\ dispatchCalls[i].target_account = CONFIG_NAME
        /\ dispatchCalls[i].target_account = payCalls[1].account

C5_Witness ==
    /\ Len(dispatchCalls) = 1
    /\ Exited(0)
    /\ dispatchCalls[1].target_account = "van"

\* C6: the payment command is run at most twice; a failing second attempt
\* ends the process with that attempt's exit status, and the second attempt is
\* followed by no payment, sleep or delegation call.
C6_SecondFailureIsFinal ==
    /\ [](Len(payCalls) <= 2)
    /\ []((process_retry.returncode \notin {Running, 0})
            => Exited(process_retry.returncode) /\ Len(payCalls) = 2)
    /\ [][Len(payCalls) = 2 => callVars' = callVars]_vars
    /\ [][pc = "retry" => pc' = "done"]_vars

C6_Witness ==
    /\ process_retry.returncode = 2
    /\ Exited(2)
    /\ Len(payCalls) = 2

FirstAttemptDone == process.returncode # Running
NothingAfterFirstAttempt ==
    /\ Len(payCalls) = 1
    /\ sleepCalls = << >>
    /\ dispatchCalls = << >>
    /\ expiry_time_utc = None

\* C7: first attempt: exit code 0 without the marker ends the process with
\* status 0 and nothing further; a non-zero exit code without the marker ends
\* it with that exit code and nothing further; the marker, with a zero or a
\* non-zero exit code, leads to the expiry analysis.
C7_FirstAttemptOutcomes ==
    /\ []((FirstAttemptDone /\ ~process.log.registered /\ process.returncode = 0)
            => Exited(0) /\ NothingAfterFirstAttempt)
    /\ []((FirstAttemptDone /\ ~process.log.registered /\ process.returncode # 0)
            => Exited(process.returncode) /\ NothingAfterFirstAttempt)
    /\ [][(pc = "pay" /\ process'.returncode # Running /\ process'.log.registered)
            => pc' = "extract" /\ exitCode' = Running]_vars

C7_Witness ==
    /\ process.returncode = 0
    /\ process.log.registered
    /\ expiry_time_utc # None
    /\ pc = "decide"

\* The blackout dates of the column that fall on today's Paris civil date or
\* later, as UTC instants of their Paris midnight.
UpcomingBlackouts(rows, now) ==
    { ParisMidnightUTC(rows[i].day) :
        i \in { j \in DOMAIN rows :
                  rows[j].kind = "date" /\ rows[j].day >= ParisDate(now.sec) } }

\* floor(secondsUntilBlackout / 86400).
DaysUntilBlackout(blackout, now) ==
    ((blackout - now.sec) * SubSecondSteps - now.sub)
        \div (SecondsPerDay * SubSecondSteps)

AtAdjust == pc = "adjust" /\ absenceSource = "ok"
Upcoming == UpcomingBlackouts(dates_absences, current_time_utc)
NoCalls == payCalls = << >> /\ sleepCalls = << >> /\ dispatchCalls = << >>
Tomorrow == ParisMidnightUTC(ParisDate(current_time_utc.sec) + 1)

\* C8: whenever the earliest blackout date on or after today's Paris midnight
\* gives daysUntilBlackout <= 0, the process exits with status 0 and never
\* runs the payment command, the sleep or the delegation command.
C8_BlackoutTodaySkipsPayment ==
    [][(/\ AtAdjust
        /\ Upcoming # {}
        /\ DaysUntilBlackout(Min(Upcoming), current_time_utc) <= 0)
       => (pc' = "done" /\ exitCode' = 0 /\ NoCalls')]_vars

\* C9 as stated: with maxDays = 6 and the earliest upcoming blackout tomorrow,
\* daysUntilBlackout is 1 at any time of day and the payment is attempted
\* with duration 1.
C9_Original ==
    [][(/\ AtAdjust
        /\ MAX_DURATION_DAYS = 6
        /\ Upcoming # {}
        /\ Min(Upcoming) = Tomorrow)
       => /\ days_until_absence_end' = 1
          /\ payment_duration_days' = 1
          /\ pc' = "pay"]_vars

\* C9 amended: with maxDays = 6 and the earliest upcoming blackout tomorrow,
\* daysUntilBlackout is floor(seconds until tomorrow's Paris midnight / 86400):
\* it is 1 only when at least 86400 s remain until that midnight (now exactly
\* at today's Paris midnight, or within the first hour of the 25-hour
\* fall-back day) and then the payment is attempted with duration
\* min(6, 1) = 1; at any other time of day it is 0 and the process exits with
\* status 0 without running the payment command.
C9_BlackoutTomorrow ==
    /\ [][(/\ AtAdjust
           /\ MAX_DURATION_DAYS = 6
           /\ Upcoming # {}
           /\ Min(Upcoming) = Tomorrow)
          => /\ days_until_absence_end' = DaysUntilBlackout(Tomorrow, current_time_utc)
             /\ days_until_absence_end' \in {0, 1}
             /\ (days_until_absence_end' = 1
                   <=> (Tomorrow - current_time_utc.sec) * SubSecondSteps
                         - current_time_utc.sub >= SecondsPerDay * SubSecondSteps)
             /\ (days_until_absence_end' = 1
                   => pc' = "pay" /\ payment_duration_days' = 1 /\ exitCode' = Running)
             /\ (days_until_absence_end' = 0
                   => pc' = "done" /\ exitCode' = 0 /\ NoCalls')]_vars
    /\ []((/\ payCalls # << >>
           /\ MAX_DURATION_DAYS = 6
           /\ next_absence_utc = Tomorrow)
          => payCalls[1].duration = 1)

C9_Witness ==
    /\ MAX_DURATION_DAYS = 6
    /\ next_absence_utc = Tomorrow
    /\ days_until_absence_end = 1
    /\ Len(payCalls) = 1
    /\ payCalls[1].duration = 1

\* C10: when the blackout source is not configured, raises, holds only
\* malformed entries or holds no date on or after today's Paris midnight, the
\* lookup yields no blackout and is not fatal, and (maxDays >= 1) the first
\* payment attempt is made with duration maxDays.
C10_FailOpen ==
    /\ [][(/\ pc = "adjust"
           /\ \/ absenceSource \in {"unconfigured", "error"}
              \/ absenceSource = "ok" /\ Upcoming = {})
          => /\ next_absence_utc' = None
             /\ exitCode' \in {Running, 0}
             /\ (MAX_DURATION_DAYS >= 1
                   => /\ pc' = "pay"
                      /\ exitCode' = Running
                      /\ payment_duration_days' = MAX_DURATION_DAYS)]_vars
    /\ []((payCalls # << >> /\ next_absence_utc = None)
            => payCalls[1].duration = MAX_DURATION_DAYS /\ MAX_DURATION_DAYS >= 1)

C10_Witness ==
    /\ absenceSource = "error"
    /\ next_absence_utc = None
    /\ Len(payCalls) = 1
    /\ payCalls[1].duration = 6

SessionOngoing == FirstAttemptDone /\ process.log.registered /\ pc # "extract"

\* C11: when the first attempt reports an active session and the pattern of
\* the expiry timestamp finds nothing in the log, the process exits with
\* status 0: no sleep, no delegation call, no second payment attempt.
C11_NoMatchExitsQuietly ==
    (SessionOngoing /\ process.log.expireTime \in {NoMatch, NonNumeric})
    => Exited(0) /\ NothingAfterFirstAttempt

C11_Witness ==
    /\ SessionOngoing
    /\ process.log.expireTime = NoMatch
    /\ Exited(0)
    /\ Len(payCalls) = 1

\* C12 as stated: an expiry literal with malformed groups, non-numeric or out
\* of range, is fatal: non-zero exit, no sleep, delegation or second attempt.
C12_Original ==
    (SessionOngoing /\ process.log.expireTime \in {NonNumeric, Malformed})
    => /\ pc = "done"
       /\ exitCode \notin {0, Running}
       /\ NothingAfterFirstAttempt

\* C12 amended: an expiry literal whose numeric groups are out of range
\* (month 13, hour 25) is fatal: the process exits with a non-zero status and
\* performs no sleep, delegation or second payment attempt.  A literal with a
\* non-numeric group does not match the pattern: the process exits with
\* status 0, likewise with no sleep, delegation or second attempt.
C12_OutOfRangeIsFatal ==
    /\ (SessionOngoing /\ process.log.expireTime = Malformed)
         => /\ pc = "done"
            /\ exitCode \notin {0, Running}
            /\ NothingAfterFirstAttempt
    /\ (SessionOngoing /\ process.log.expireTime = NonNumeric)
         => Exited(0) /\ NothingAfterFirstAttempt

C12_Witness ==
    /\ SessionOngoing
    /\ process.log.expireTime = Malformed
    /\ Exited(1)
    /\ Len(payCalls) = 1

\* C13: after the delegate verdict, when the delegation cannot be made (the
\* credential is absent, or the delegation command fails) the process exits
\* with a non-zero status and makes no second payment attempt; it exits with
\* status 0 only if the delegation command was run and succeeded.
C13_DelegationFailureIsFatal ==
    (verdict = "DelegateToFutureJob" /\ pc = "done")
    => /\ Len(payCalls) = 1
       /\ sleepCalls = << >>
       /\ exitCode = 0 <=> (Len(dispatchCalls) = 1 /\ dispatch_process = 0)
       /\ ~GH_TOKEN => (dispatchCalls = << >> /\ exitCode # 0)
       /\ dispatch_process \notin {Running, 0} => exitCode # 0

C13_Witness ==
    /\ verdict = "DelegateToFutureJob"
    /\ Len(dispatchCalls) = 1
    /\ dispatch_process = 2
    /\ Exited(1)
    /\ Len(payCalls) = 1

\* Some required input is absent.
InputMissing == missing # "none"

\* C14: if a required input is missing (configuration file, account entry,
\* or one of the required environment variables) the process exits non-zero
\* before any external call: the blackout source is not read and neither the
\* payment command nor the delegation command is run.
C14_MissingInputFailsFirst ==
    InputMissing
    => /\ absenceSource # "ok"
       /\ NoCalls
       /\ pc = "done" => exitCode # 0

\* now = 2024-06-10T10:00:00Z, expiry = 2024-06-10T10:30:00Z, decision taken.
Scenario1030 ==
    /\ current_time_utc = [sec |-> At(161, 10, 0, 0), sub |-> 0]
    /\ expiry_time_utc = At(161, 10, 30, 0)
    /\ Decided

\* C15 as stated: in this scenario remaining is 1770 s and the decision is
\* SleepThenRetry with duration 1770 s.
C15_Original ==
    Scenario1030
    => /\ wait_time_seconds = 1770
       /\ verdict = "SleepThenRetry"
       /\ pc # "sleep" => sleepCalls = << 1770 >>

\* C15 amended: in this scenario, with the program's safety gap of 180 s and
\* maxWait of 14400 s, remaining = (expiry + safetyGapSeconds) - now is 1980 s
\* and the decision is SleepThenRetry with duration 1980 s.
C15_Scenario1030Sleeps1980 ==
    Scenario1030
    => /\ RemainingTicks = 1980 * SubSecondSteps
       /\ wait_time_seconds = 1980
       /\ verdict = "SleepThenRetry"
       /\ pc \in {"sleep", "retry", "done"}
       /\ pc # "sleep" => sleepCalls = << 1980 >>
       /\ dispatchCalls = << >>

C15_Witness ==
    /\ Scenario1030
    /\ sleepCalls = << 1980 >>
    /\ pc = "done"
    /\ Len(payCalls) = 2

\* The Paris civil day (day number of 2024) whose 24, 23 or 25 hours contain
\* the instant utc: Paris being ahead of UTC, the UTC day or the one after.
CivilDayOf(utc) ==
    CHOOSE d \in {utc \div SecondsPerDay, utc \div SecondsPerDay + 1} :
        ParisMidnightUTC(d) <= utc /\ utc < ParisMidnightUTC(d + 1)

\* Summer time is in force at 20:00 Paris from 2024-03-31 (day 90, the
\* spring-forward day) to 2024-10-26 (day 299, the eve of the fall-back day).
SummerEvening(d) == 90 <= d /\ d <= 299

\* C16: the cutoff is 20:00:00 Paris wall-clock time on the Paris civil date
\* that contains now (not now's UTC date), as an absolute instant: 18:00Z of
\* that date when summer time is in force at that local time, 19:00Z
\* otherwise, the spring-forward and fall-back days included.
C16_CutoffIsParisEvening ==
    (paris_end_parking_timestamp # None)
    => LET d == CivilDayOf(current_time_utc.sec)
       IN paris_end_parking_timestamp =
             IF SummerEvening(d) THEN At(d, 18, 0, 0) ELSE At(d, 19, 0, 0)

\* Taken at 01:30 CET on the spring-forward day, the cutoff is 18:00Z.
C16_Witness ==
    /\ current_time_utc.sec = At(90, 0, 30, 0)
    /\ paris_end_parking_timestamp = At(90, 18, 0, 0)
    /\ Decided

SecondAttemptDone == process_retry.returncode # Running

\* C17: for every run of the payment command, the second one included, the
\* process reports a successful payment (exit 0) only when the command's exit
\* code is 0 and the marker is absent from its output; exit code 0 with the
\* marker is a session still going on, not a success.
C17_SuccessNeedsNoMarker ==
    /\ [][(pc = "pay" /\ process'.returncode = 0 /\ process'.log.registered)
            => pc' = "extract" /\ exitCode' = Running]_vars
    /\ []((FirstAttemptDone /\ ~process.log.registered /\ Exited(0))
            => process.returncode = 0)
    /\ []((SecondAttemptDone /\ Exited(0))
            => process_retry.returncode = 0 /\ ~process_retry.log.registered)

\* C18: the duration is adjusted before the first payment attempt and not
\* afterwards; every payment attempt of the run, first and second, is issued
\* with that same duration d, and 1 <= d <= maxDays.
C18_OneDurationPerRun ==
    /\ [](\A i \in DOMAIN payCalls :
            /\ payCalls[i].duration = payment_duration_days
            /\ 1 <= payCalls[i].duration
            /\ payCalls[i].duration <= MAX_DURATION_DAYS)
    /\ [][pc \notin {"execute", "adjust"}
            => payment_duration_days' = payment_duration_days]_vars
    /\ [][pc = "adjust" => payCalls = << >>]_vars

C18_Witness ==
    /\ MAX_DURATION_DAYS = 6
    /\ next_absence_utc # None
    /\ Len(payCalls) = 2
    /\ payCalls[1].duration = 1
    /\ payCalls[2].duration = 1

\* Seconds from now to the instant t, in clock ticks.
TicksUntil(t) == (t - current_time_utc.sec) * SubSecondSteps - current_time_utc.sub

\* C19: every delegation call has a dispatch instant d with
\* now + (maxWaitSeconds - marginSeconds) < d < expiry <= today's cutoff: more
\* than 11700 s after now, before the permit's expiry, not after the cutoff.
C19_DispatchWindow ==
    \A i \in DOMAIN dispatchCalls :
        LET d == dispatchCalls[i].launch_time
        IN /\ TicksUntil(d) > (MAX_WAIT_SECONDS - MARGIN_SECONDS) * SubSecondSteps
           /\ TicksUntil(d) > 11700 * SubSecondSteps
           /\ d < expiry_time_utc
           /\ expiry_time_utc <= Cutoff

\* The earliest dispatch there can be: remaining is maxWaitSeconds + 1.
C19_Witness ==
    /\ Len(dispatchCalls) = 1
    /\ RemainingTicks = (MAX_WAIT_SECONDS + 1) * SubSecondSteps
    /\ TicksUntil(dispatchCalls[1].launch_time) = 11701 * SubSecondSteps

\* The run started at or after the dispatch instant of the expiry it
\* observes, as a job delegated for that expiry does.
StartedAfterDispatchInstant ==
    /\ Decided
    /\ TicksUntil(expiry_time_utc + SAFETY_GAP_SECONDS - MARGIN_SECONDS) <= 0

\* C20: a run that starts at or after the dispatch instant
\* expiry + safetyGapSeconds - marginSeconds of the expiry it observes has
\* remaining <= marginSeconds, takes RetryNow or SleepThenRetry, and neither
\* runs the delegation command nor defers: a delegated job does not delegate
\* again.  No run makes more than one delegation call.
C20_NoChainedDelegation ==
    /\ StartedAfterDispatchInstant
         => /\ verdict \in {"RetryNow", "SleepThenRetry"}
            /\ wait_time_seconds <= MARGIN_SECONDS
            /\ dispatchCalls = << >>
            /\ pc \in {"sleep", "retry", "done"}
            /\ pc = "done" => Len(payCalls) = 2
    /\ Len(dispatchCalls) <= 1

\* Started exactly at the dispatch instant: sleeps the whole margin.
C20_Witness ==
    /\ StartedAfterDispatchInstant
    /\ RemainingTicks = MARGIN_SECONDS * SubSecondSteps
    /\ verdict = "SleepThenRetry"
    /\ sleepCalls = << MARGIN_SECONDS >>
    /\ pc = "done"

====
